---- MODULE Spec2Model ----
(***************************************************************************)
(* Model of navis.interfaces.nrn.NeuronCompartmentModel: the conversion of *)
(* a skeleton (a forest of nodes with parent links, edge weights and       *)
(* radii) into NEURON Sections, the node -> (sec_ix, sec_pos) map, and the *)
(* registries of recorders, stimuli and synapses.                          *)
(*                                                                         *)
(* Node ids are 1..n, parent 0 stands for "no parent" (parent_id < 0).     *)
(* Section indices are 0-based as in the source; the Section with index i  *)
(* is sections[i + 1].  A normalised position is the pair <<num, den>> of  *)
(* the cumulative distance and the Segment's total length (num / den); a   *)
(* diameter is the pair <<2 * sum of radii, number of radii>>.             *)
(***************************************************************************)
EXTENDS Integers, Sequences, FiniteSets, TLC

\* Bounds of the model
MaxNodes == 4
MaxWeight == 3
MaxRes == 2
MaxCalls == 2
MaxWhere == 2
MaxRecorders == 2

VARIABLES
    skeleton,   \* self.skeleton: [n, parent, weight, radius]
    segments,   \* self.skeleton.small_segments
    res,        \* self.res
    status,     \* "unbuilt" | "built" | "failed" | "cleared"
    sections,   \* self._sections
    sec_ix,     \* column skeleton.nodes['sec_ix'] (only the mapped nodes)
    sec_pos,    \* column skeleton.nodes['sec_pos'] (only the mapped nodes)
    records,    \* self._records
    stimuli,    \* self._stimuli
    synapses,   \* self._synapses
    main_t,     \* module-level main_t: NoTrace or the id of the time Vector
    op,         \* name of the last call
    arg,        \* how the `where` of the last call relates to the node ids
    err,        \* exception raised by the last call ("none" if it returned)
    ncalls,     \* number of instrumentation calls made so far
    nobj,       \* number of NEURON objects (recorders, point processes) registered
    log,        \* the warnings logged so far
    hoc,        \* neuron.h: the clock, the runs, the Vectors the last run filled
                \* and those it emptied
    peer,       \* another Model of the same process
    orig        \* the Section array of the first build, the builds and clears so far

vars == <<skeleton, segments, res, status, sections, sec_ix, sec_pos, records, stimuli,
          synapses, main_t, op, arg, err, ncalls, nobj, log, hoc, peer, orig>>

(***************************************************************************)
(* Generic helpers on sequences and functions                              *)
(***************************************************************************)
Reverse(s) == [k \in 1..Len(s) |-> s[Len(s) + 1 - k]]

Range(s) == {s[k] : k \in 1..Len(s)}

RECURSIVE SeqSum(_)
SeqSum(s) == IF Len(s) = 0 THEN 0 ELSE s[1] + SeqSum(Tail(s))

\* numpy cumsum
CumSum(s) == [k \in 1..Len(s) |-> SeqSum(SubSeq(s, 1, k))]

Min(S) == CHOOSE x \in S : \A y \in S : x <= y

RECURSIVE SortedSeq(_)
SortedSeq(S) == IF S = {} THEN <<>> ELSE <<Min(S)>> \o SortedSeq(S \ {Min(S)})

EmptyMap == [k \in {} |-> 0]

\* dict.update(dict(zip(keys, vals)))
DictUpdate(d, keys, vals) ==
    [k \in (DOMAIN d) \cup Range(keys) |->
        IF k \in Range(keys)
        THEN vals[CHOOSE j \in 1..Len(keys) :
                     keys[j] = k /\ \A j2 \in 1..Len(keys) : keys[j2] = k => j2 <= j]
        ELSE d[k]]

(***************************************************************************)
(* The skeleton (navis.TreeNeuron) as far as the model reads it            *)
(***************************************************************************)
NodeIds(sk) == 1..sk.n

Children(sk, x) == {c \in NodeIds(sk) : sk.parent[c] = x}

\* skeleton.root: the ids of the nodes without parent
Roots(sk) == {x \in NodeIds(sk) : sk.parent[x] = 0}

IsBranch(sk, x) == Cardinality(Children(sk, x)) >= 2

IsLeaf(sk, x) == Children(sk, x) = {}

\* A chain stops at a root or at a branch point
IsStop(sk, x) == sk.parent[x] = 0 \/ IsBranch(sk, x)

RECURSIVE ClimbSegment(_, _)
ClimbSegment(sk, seg) ==
    LET last == seg[Len(seg)]
    IN IF IsStop(sk, last) THEN seg
       ELSE ClimbSegment(sk, Append(seg, sk.parent[last]))

\* Distal ends of the maximal unbranched chains: leaves and branch points
\* that have a parent
Seeds(sk) == {x \in NodeIds(sk) : sk.parent[x] # 0 /\ (IsLeaf(sk, x) \/ IsBranch(sk, x))}

\* skeleton.small_segments: one child -> parent list of node ids per chain
small_segments(sk) ==
    LET seeds == SortedSeq(Seeds(sk))
    IN [i \in 1..Len(seeds) |-> ClimbSegment(sk, <<seeds[i], sk.parent[seeds[i]]>>)]

\* G.edges[(c, p)]['weight'] for the consecutive pairs of a child -> parent list
EdgeWeights(sk, seg) == [k \in 1..(Len(seg) - 1) |-> sk.weight[seg[k]]]

\* graph.segment_length: sum of the edge weights along the segment
segment_length(sk, seg) == SeqSum(EdgeWeights(sk, seg))

(***************************************************************************)
(* _generate_sections                                                      *)
(***************************************************************************)
\* dist and norm_pos of one segment, parent -> child
NormPos(sk, seg) ==
    LET dist == <<0>> \o Reverse(EdgeWeights(sk, seg))
        cum  == CumSum(dist)
        tot  == SeqSum(dist)
    IN [k \in 1..Len(dist) |-> <<cum[k], tot>>]

\* zip(seg, norm_pos) of one segment, parent -> child, with every node kept
AllItems(sk, seg) ==
    LET rseg == Reverse(seg)
        np   == NormPos(sk, seg)
    IN [k \in 1..Len(rseg) |-> [node |-> rseg[k], pos |-> np[k]]]

\* SegItems with the first node of a non-root segment kept
SegItemsNoDrop(sk, seg) == AllItems(sk, seg)

\* The (node, position) pairs a segment contributes to the maps: the first
\* node is dropped unless it is a root
SegItems(sk, seg) ==
    IF Reverse(seg)[1] \notin Roots(sk) THEN Tail(AllItems(sk, seg))
    ELSE AllItems(sk, seg)

SegNodes(sk, seg) ==
    LET items == SegItems(sk, seg)
    IN [k \in 1..Len(items) |-> items[k].node]

SegPos(sk, seg) ==
    LET items == SegItems(sk, seg)
    IN [k \in 1..Len(items) |-> items[k].pos]

RECURSIVE BuildNode2Pos(_, _, _, _)
BuildNode2Pos(sk, segs, i, node2pos) ==
    IF i > Len(segs) THEN node2pos
    ELSE BuildNode2Pos(sk, segs, i + 1,
                       DictUpdate(node2pos, SegNodes(sk, segs[i]), SegPos(sk, segs[i])))

RECURSIVE BuildNode2Sec(_, _, _, _)
BuildNode2Sec(sk, segs, i, node2sec) ==
    IF i > Len(segs) THEN node2sec
    ELSE BuildNode2Sec(sk, segs, i + 1,
                       LET nodes == SegNodes(sk, segs[i])
                       IN DictUpdate(node2sec, nodes, [k \in 1..Len(nodes) |-> i - 1]))

Node2Pos(sk, segs) == BuildNode2Pos(sk, segs, 1, EmptyMap)

Node2Sec(sk, segs) == BuildNode2Sec(sk, segs, 1, EmptyMap)

\* Nseg with the quotient rounded to the nearest integer instead of truncated
NsegRounded(L, r) == 1 + 2 * ((L + r) \div (r * 2))

\* sec.nseg = 1 + 2 * int(sec.L / (self.res * 2))
Nseg(L, r) == 1 + 2 * (L \div (r * 2))

\* The nodes of seg whose radius is defined (not NaN)
DefinedRadii(sk, seg) == SelectSeq(seg, LAMBDA x : x \notin sk.nan)

\* MeanDiam over the nodes the segment contributes to the maps: the first node
\* of a non-root segment is left out
MeanDiamOwnNodes(sk, seg) ==
    LET def == DefinedRadii(sk, SegNodes(sk, seg))
    IN <<2 * SeqSum([k \in 1..Len(def) |-> sk.radius[def[k]]]), Len(def)>>

\* sec.diam = nodes.loc[seg, 'radius'].mean() * 2; the mean skips NaN
MeanDiam(sk, seg) ==
    LET def == DefinedRadii(sk, seg)
    IN <<2 * SeqSum([k \in 1..Len(def) |-> sk.radius[def[k]]]), Len(def)>>

NoParent == -1

\* Ra of a new neuron.h.Section, 35.4 Ohm cm, in tenths of an Ohm cm
DefaultRa == 354

\* cm of a new neuron.h.Section, 1 uF/cm2, in tenths of a uF/cm2
DefaultCm == 10

\* One unconnected Section per segment
NewSection(sk, r, i, seg) ==
    [name   |-> i,
     L      |-> segment_length(sk, seg),
     diam   |-> MeanDiam(sk, seg),
     nseg   |-> Nseg(segment_length(sk, seg), r),
     parent |-> NoParent,
     parentx |-> <<0, 1>>,
     mechs  |-> {},
     par    |-> EmptyMap,
     Ra     |-> DefaultRa,
     cm     |-> DefaultCm]

\* MakeSections with the last segment left out
MakeSectionsOffByOne(sk, segs, r) ==
    [i \in 1..(Len(segs) - 1) |-> NewSection(sk, r, i - 1, segs[i])]

MakeSections(sk, segs, r) ==
    [i \in 1..Len(segs) |-> NewSection(sk, r, i - 1, segs[i])]

\* ConnectSection with the child attached to the 0 end of parent_sec
ConnectSectionAtZero(sec, parent_ix) ==
    [sec EXCEPT !.parent = parent_ix, !.parentx = <<0, 1>>]

\* self.sections[i].connect(parent_sec): the 0 end of the child is attached to
\* the 1 end of parent_sec
ConnectSection(sec, parent_ix) ==
    [sec EXCEPT !.parent = parent_ix, !.parentx = <<1, 1>>]

\* ConnectSections with the Section of the first node of the segment, the
\* segment's own Section, taken as parent_sec
ConnectSectionsToSelf(sk, segs, secs, node2sec) ==
    [i \in 1..Len(secs) |->
        LET seg == segs[i]
        IN IF seg[Len(seg)] \in Roots(sk) THEN secs[i]
           ELSE ConnectSection(secs[i], node2sec[seg[1]])]

\* The connection loop: a segment whose last node is a root is skipped
ConnectSections(sk, segs, secs, node2sec) ==
    [i \in 1..Len(secs) |->
        LET seg == segs[i]
        IN IF seg[Len(seg)] \in Roots(sk) THEN secs[i]
           ELSE ConnectSection(secs[i], node2sec[seg[Len(seg)]])]

GenerateSections(sk, segs, r) ==
    ConnectSections(sk, segs, MakeSections(sk, segs, r), Node2Sec(sk, segs))

\* SectionsAtStart without the reset: the Sections are appended to the array
\* the Model has
SectionsKept(secs) == secs

\* self._sections = [] before the Sections are appended
SectionsAtStart(secs) == <<>>

\* self._sections after _generate_sections ran on a Model whose array is secs
Generated(secs, sk, segs, r) == SectionsAtStart(secs) \o GenerateSections(sk, segs, r)

(***************************************************************************)
(* _validate_skeleton: warns on units other than microns and on several    *)
(* roots, raises ValueError without radius column and on a radius <= 0     *)
(***************************************************************************)
\* The warnings _validate_skeleton logs
Warnings(sk) ==
    (IF sk.units \notin {"dimensionless", "um"} THEN {"units"} ELSE {})
    \cup (IF Cardinality(Roots(sk)) > 1 THEN {"multiple_roots"} ELSE {})

\* np.any(radius.values <= 0): the comparison is False for NaN
AnyRadiusNotPositive(sk) == \E x \in NodeIds(sk) : x \notin sk.nan /\ sk.radius[x] <= 0

ValidSkeleton(sk) == sk.hasradius /\ ~AnyRadiusNotPositive(sk)

NoTrace == 0

\* RecordTime creating a new time Vector at every construction
RecordTimeAlways(mt, h) == h.ntrace + 1

\* if isinstance(main_t, type(None)): main_t = neuron.h.Vector().record(...);
\* the Vectors are numbered in the order of their creation
RecordTime(mt, h) == IF mt = NoTrace THEN h.ntrace + 1 ELSE mt

\* neuron.h after the module-level main_t went from mt to mtnew
TraceCreated(h, mt, mtnew) == [h EXCEPT !.ntrace = IF mtnew # mt THEN @ + 1 ELSE @]

\* The property t of every Model returns the module-level main_t
t == main_t

(***************************************************************************)
(* Operations                                                              *)
(***************************************************************************)
\* __init__
Construct ==
    /\ status = "unbuilt"
    /\ IF ValidSkeleton(skeleton)
       THEN /\ sections' = Generated(<<>>, skeleton, segments, res)
            /\ sec_ix' = Node2Sec(skeleton, segments)
            /\ sec_pos' = Node2Pos(skeleton, segments)
            /\ main_t' = RecordTime(main_t, hoc)
            /\ hoc' = TraceCreated(hoc, main_t, main_t')
            /\ orig' = [orig EXCEPT !.sections = sections', !.builds = 1]
            /\ status' = "built"
            /\ err' = "none"
       ELSE /\ status' = "failed"
            /\ err' = "ValueError"
            /\ UNCHANGED <<sections, sec_ix, sec_pos, main_t, hoc, orig>>
    /\ log' = log \cup Warnings(skeleton)
    /\ op' = "__init__"
    /\ arg' = "none"
    /\ UNCHANGED <<skeleton, segments, res, records, stimuli, synapses, ncalls, nobj, peer>>

\* clear without `self._sections = []`: the Section array is kept
clear_keeping_sections ==
    /\ status = "built"
    /\ records' = EmptyMap
    /\ stimuli' = EmptyMap
    /\ synapses' = EmptyMap
    /\ status' = "cleared"
    /\ err' = "none"
    /\ orig' = [orig EXCEPT !.clears = @ + 1]
    /\ op' = "clear"
    /\ arg' = "none"
    /\ UNCHANGED <<skeleton, segments, res, sections, sec_ix, sec_pos, main_t, ncalls,
                   nobj, log, hoc, peer>>

\* clear
clear ==
    /\ status = "built"
    /\ records' = EmptyMap
    /\ stimuli' = EmptyMap
    /\ synapses' = EmptyMap
    /\ sections' = <<>>
    /\ status' = "cleared"
    /\ err' = "none"
    /\ orig' = [orig EXCEPT !.clears = @ + 1]
    /\ op' = "clear"
    /\ arg' = "none"
    /\ UNCHANGED <<skeleton, segments, res, sec_ix, sec_pos, main_t, ncalls, nobj, log,
                   hoc, peer>>

MaxBuilds == 2

\* _generate_sections called again on the Model
_generate_sections ==
    /\ status \in {"built", "cleared"}
    /\ orig.builds < MaxBuilds
    /\ sections' = Generated(sections, skeleton, segments, res)
    /\ sec_ix' = Node2Sec(skeleton, segments)
    /\ sec_pos' = Node2Pos(skeleton, segments)
    /\ status' = "built"
    /\ orig' = [orig EXCEPT !.builds = @ + 1]
    /\ op' = "_generate_sections"
    /\ arg' = "none"
    /\ err' = "none"
    /\ UNCHANGED <<skeleton, segments, res, records, stimuli, synapses, main_t, ncalls,
                   nobj, log, hoc, peer>>

\* The variables clear_records, clear_stimuli and clear_synapses leave alone
\* besides the registries
ClearFrame == <<skeleton, segments, res, status, sections, sec_ix, sec_pos, main_t,
                ncalls, nobj, log, hoc, peer, orig>>

\* clear_stimuli emptying the synapses registry as well
clear_stimuli_and_synapses ==
    /\ status \in {"built", "cleared"}
    /\ stimuli' = EmptyMap
    /\ synapses' = EmptyMap
    /\ op' = "clear_stimuli"
    /\ arg' = "none"
    /\ err' = "none"
    /\ UNCHANGED records
    /\ UNCHANGED ClearFrame

clear_stimuli ==
    /\ status \in {"built", "cleared"}
    /\ stimuli' = EmptyMap
    /\ op' = "clear_stimuli"
    /\ arg' = "none"
    /\ err' = "none"
    /\ UNCHANGED <<records, synapses>>
    /\ UNCHANGED ClearFrame

\* clear_records dropping the Section array as well
clear_records_and_sections ==
    /\ status \in {"built", "cleared"}
    /\ records' = EmptyMap
    /\ sections' = <<>>
    /\ op' = "clear_records"
    /\ arg' = "none"
    /\ err' = "none"
    /\ UNCHANGED <<stimuli, synapses>>
    /\ UNCHANGED <<skeleton, segments, res, status, sec_ix, sec_pos, main_t,
                   ncalls, nobj, log, hoc, peer, orig>>

clear_records ==
    /\ status \in {"built", "cleared"}
    /\ records' = EmptyMap
    /\ op' = "clear_records"
    /\ arg' = "none"
    /\ err' = "none"
    /\ UNCHANGED <<stimuli, synapses>>
    /\ UNCHANGED ClearFrame

clear_synapses ==
    /\ status \in {"built", "cleared"}
    /\ synapses' = EmptyMap
    /\ op' = "clear_synapses"
    /\ arg' = "none"
    /\ err' = "none"
    /\ UNCHANGED <<records, stimuli>>
    /\ UNCHANGED ClearFrame

(***************************************************************************)
(* Instrumentation: location lookup shared by the add_* methods            *)
(***************************************************************************)
\* The model object exists once __init__ has returned
Alive == status \in {"built", "cleared"}

\* LookupFails looking at the first label only
LookupFailsFirst(sk, where) == where[1] \notin NodeIds(sk)

\* nodes.loc[where] raises KeyError when a label of `where` is not in the index
LookupFails(sk, where) == \E k \in 1..Len(where) : where[k] \notin NodeIds(sk)

\* self.sections[node.sec_ix] fails for a node without sec_ix and for an index
\* outside the Section array
NoSection(node) ==
    \/ node \notin DOMAIN sec_ix
    \/ sec_ix[node] \notin 0..(Len(sections) - 1)

\* self.sections[node.sec_ix](node.sec_pos)
SectionOf(node) == sections[sec_ix[node] + 1]

\* Whether `where` holds only node ids of the skeleton, starts with an absent
\* id, or holds an absent id after ids of the skeleton
WhereClass(sk, where) ==
    IF \A k \in 1..Len(where) : where[k] \in NodeIds(sk) THEN "valid"
    ELSE IF where[1] \notin NodeIds(sk) THEN "missing_first"
    ELSE "valid_then_missing"

(***************************************************************************)
(* _add_record                                                             *)
(***************************************************************************)
NoLabel == "None"

\* `if label:` is false for None and for the empty string
Truthy(label) == label \notin {NoLabel, ""}

\* Keys of self.records: a label (a string) or a node id
LabelKey(label) == [label |-> label, node |-> 0]

NodeKey(node) == [label |-> "", node |-> node]

\* A name is a sequence of tokens; what.startswith('_ref_') and the prefixing
RefName(name) ==
    IF Len(name) > 0 /\ name[1] = "_ref_" THEN name ELSE <<"_ref_">> \o name

\* getattr(sec(pos), what): the voltage is a variable of every segment, a
\* variable of a mechanism only where the mechanism is inserted
HasVar(sec, refname) ==
    \/ refname = <<"_ref_", "v">>
    \/ refname = <<"_ref_", "m_hh">> /\ "hh" \in sec.mechs

\* self.records[key] = rec, keeping the recorder already stored under key
RecordStoreKeepFirst(recs, key, rec) ==
    [k \in (DOMAIN recs) \cup {key} |-> IF k \in DOMAIN recs THEN recs[k] ELSE rec]

\* self.records[key] = rec
RecordStore(recs, key, rec) ==
    [k \in (DOMAIN recs) \cup {key} |-> IF k = key THEN rec ELSE recs[k]]

\* The loop over nodes.loc[where]; stops at the first exception
RECURSIVE RecordLoop(_, _, _, _, _, _)
RecordLoop(recs, where, k, refname, label, id) ==
    IF k > Len(where) THEN [records |-> recs, err |-> "none", nobj |-> id]
    ELSE IF NoSection(where[k])
         THEN [records |-> recs, err |-> "IndexError", nobj |-> id]
    ELSE IF ~HasVar(SectionOf(where[k]), refname)
         THEN [records |-> recs, err |-> "AttributeError", nobj |-> id]
    ELSE RecordLoop(
            RecordStore(recs,
                        IF Truthy(label) THEN LabelKey(label) ELSE NodeKey(where[k]),
                        [id |-> id + 1, node |-> where[k], sec |-> sec_ix[where[k]],
                         pos |-> sec_pos[where[k]], what |-> refname]),
            where, k + 1, refname, label, id + 1)

\* Outcome of _add_record(where, what, label)
AddRecordResult(where, what, label) ==
    IF ~what.isstr
    THEN [records |-> records, err |-> "TypeError", nobj |-> nobj]
    ELSE IF LookupFails(skeleton, where)
    THEN [records |-> records, err |-> "KeyError", nobj |-> nobj]
    ELSE RecordLoop(records, where, 1, RefName(what.name), label, nobj)

_add_record(where, what, label) ==
    /\ Alive
    /\ LET r == AddRecordResult(where, what, label)
       IN /\ records' = r.records
          /\ err' = r.err
          /\ nobj' = r.nobj
    /\ op' = "_add_record"
    /\ arg' = WhereClass(skeleton, where)
    /\ UNCHANGED <<skeleton, segments, res, status, sections, sec_ix, sec_pos,
                   stimuli, synapses, main_t, log, hoc, peer, orig>>

\* add_voltage_record
add_voltage_record(where, label) ==
    _add_record(where, [isstr |-> TRUE, name |-> <<"v">>], label)

(***************************************************************************)
(* _add_stimulus and add_synaptic_input                                    *)
(***************************************************************************)
\* d[key] = items, dropping the entries already stored under key
ListReplace(d, key, items) ==
    [x \in (DOMAIN d) \cup {key} |-> IF x = key THEN items ELSE d[x]]

\* d[key] = d.get(key, []) + items
ListAppend(d, key, items) ==
    [x \in (DOMAIN d) \cup {key} |->
        IF x = key THEN (IF key \in DOMAIN d THEN d[key] ELSE <<>>) \o items
        ELSE d[x]]

\* A point process, connector or spike generator; src is the id of the
\* generator a connector listens to (0 for the other kinds)
NrnObject(kind, id, node, src) ==
    [kind |-> kind, id |-> id, node |-> node, src |-> src]

RECURSIVE StimulusLoop(_, _, _, _, _)
StimulusLoop(stims, where, k, stimulus, id) ==
    IF k > Len(where) THEN [stimuli |-> stims, err |-> "none", nobj |-> id]
    ELSE IF NoSection(where[k])
         THEN [stimuli |-> stims, err |-> "IndexError", nobj |-> id]
    ELSE StimulusLoop(
            ListAppend(stims, where[k], <<NrnObject(stimulus, id + 1, where[k], 0)>>),
            where, k + 1, stimulus, id + 1)

AddStimulusResult(stimulus, where) ==
    IF LookupFails(skeleton, where)
    THEN [stimuli |-> stimuli, err |-> "KeyError", nobj |-> nobj]
    ELSE StimulusLoop(stimuli, where, 1, stimulus, nobj)

_add_stimulus(stimulus, where) ==
    /\ Alive
    /\ LET r == AddStimulusResult(stimulus, where)
       IN /\ stimuli' = r.stimuli
          /\ err' = r.err
          /\ nobj' = r.nobj
    /\ op' = "_add_stimulus"
    /\ arg' = WhereClass(skeleton, where)
    /\ UNCHANGED <<skeleton, segments, res, status, sections, sec_ix, sec_pos,
                   records, synapses, main_t, log, hoc, peer, orig>>

\* The loop of add_synaptic_input; gen is the id of the NetStim of the call
RECURSIVE SynapseLoop(_, _, _, _, _, _)
SynapseLoop(syns, stims, where, k, gen, id) ==
    IF k > Len(where)
    THEN [synapses |-> syns, stimuli |-> stims, err |-> "none", nobj |-> id]
    ELSE IF NoSection(where[k])
         THEN [synapses |-> syns, stimuli |-> stims, err |-> "IndexError",
               nobj |-> IF k = 1 THEN gen - 1 ELSE id]
    ELSE SynapseLoop(
            ListAppend(syns, where[k], <<NrnObject("Exp2Syn", id + 1, where[k], 0)>>),
            ListAppend(stims, where[k],
                       <<NrnObject("NetCon", id + 2, where[k], gen),
                         NrnObject("NetStim", gen, 0, 0)>>),
            where, k + 1, gen, id + 2)

AddSynapticInputResult(where) ==
    IF LookupFails(skeleton, where)
    THEN [synapses |-> synapses, stimuli |-> stimuli, err |-> "KeyError", nobj |-> nobj]
    ELSE SynapseLoop(synapses, stimuli, where, 1, nobj + 1, nobj + 1)

add_synaptic_input(where) ==
    /\ Alive
    /\ LET r == AddSynapticInputResult(where)
       IN /\ synapses' = r.synapses
          /\ stimuli' = r.stimuli
          /\ err' = r.err
          /\ nobj' = r.nobj
    /\ op' = "add_synaptic_input"
    /\ arg' = WhereClass(skeleton, where)
    /\ UNCHANGED <<skeleton, segments, res, status, sections, sec_ix, sec_pos,
                   records, main_t, log, hoc, peer, orig>>

(***************************************************************************)
(* insert                                                                  *)
(***************************************************************************)
\* subset=None
NoSubset == [kind |-> "None", ixs |-> <<>>]

\* `if not subset`: None, the integer 0 and the empty list select every Section
SubsetFalsy(subset) ==
    \/ subset.kind = "None"
    \/ subset.kind = "int" /\ subset.ixs[1] = 0
    \/ subset.kind = "list" /\ subset.ixs = <<>>

\* Indices of the Sections insert and uninsert work on
SubsetTargets(subset) ==
    IF SubsetFalsy(subset) THEN 0..(Len(sections) - 1) ELSE Range(subset.ixs)

\* The parameters of a mechanism in a segment where nothing was set
DefaultParams == [g |-> 0, e |-> 0]

NoKwargs == [n \in {} |-> 0]

\* for k, v in kwargs.items(): setattr(mech, k, v)
SetParams(old, kwargs) ==
    [n \in DOMAIN old |-> IF n \in DOMAIN kwargs THEN kwargs[n] ELSE old[n]]

\* The parameters of mechanism in the segments of sec, the defaults where
\* the mechanism is not inserted yet
MechParams(sec, mechanism) ==
    IF mechanism \in DOMAIN sec.par THEN sec.par[mechanism]
    ELSE [k \in 1..sec.nseg |-> DefaultParams]

\* InsertMech setting the parameters in the first segment of sec only
InsertMechFirstSeg(sec, mechanism, kwargs) ==
    [sec EXCEPT
        !.mechs = @ \cup {mechanism},
        !.par = [m \in (DOMAIN @) \cup {mechanism} |->
                    IF m = mechanism
                    THEN [k \in 1..sec.nseg |->
                            IF k = 1 THEN SetParams(MechParams(sec, mechanism)[k], kwargs)
                            ELSE MechParams(sec, mechanism)[k]]
                    ELSE sec.par[m]]]

\* sec.insert(mechanism), then the parameters are set in every segment of sec
InsertMech(sec, mechanism, kwargs) ==
    [sec EXCEPT
        !.mechs = @ \cup {mechanism},
        !.par = [m \in (DOMAIN @) \cup {mechanism} |->
                    IF m = mechanism
                    THEN [k \in 1..sec.nseg |->
                            SetParams(MechParams(sec, mechanism)[k], kwargs)]
                    ELSE sec.par[m]]]

\* hasattr(sec, mechanism)
HasMech(sec, mechanism) == mechanism \in sec.mechs

\* if hasattr(sec, mechanism): sec.uninsert(mechanism)
UninsertMech(sec, mechanism) ==
    IF HasMech(sec, mechanism)
    THEN [sec EXCEPT !.mechs = @ \ {mechanism},
                     !.par = [m \in (DOMAIN @) \ {mechanism} |-> sec.par[m]]]
    ELSE sec

insert(mechanism, subset, kwargs) ==
    /\ Alive
    /\ SubsetTargets(subset) \subseteq 0..(Len(sections) - 1)
    /\ sections' = [i \in 1..Len(sections) |->
                       IF (i - 1) \in SubsetTargets(subset)
                       THEN InsertMech(sections[i], mechanism, kwargs)
                       ELSE sections[i]]
    /\ op' = "insert"
    /\ arg' = "none"
    /\ err' = "none"
    /\ UNCHANGED <<skeleton, segments, res, status, sec_ix, sec_pos, records,
                   stimuli, synapses, main_t, ncalls, nobj, log,
                   hoc, peer, orig>>

uninsert(mechanism, subset) ==
    /\ Alive
    /\ SubsetTargets(subset) \subseteq 0..(Len(sections) - 1)
    /\ sections' = [i \in 1..Len(sections) |->
                       IF (i - 1) \in SubsetTargets(subset)
                       THEN UninsertMech(sections[i], mechanism)
                       ELSE sections[i]]
    /\ op' = "uninsert"
    /\ arg' = "none"
    /\ err' = "none"
    /\ UNCHANGED <<skeleton, segments, res, status, sec_ix, sec_pos, records,
                   stimuli, synapses, main_t, ncalls, nobj, log,
                   hoc, peer, orig>>

(***************************************************************************)
(* DrosophilaPN                                                            *)
(***************************************************************************)
\* The Ra setter: for s in self.sections: s.Ra = value
SetRa(secs, value) == [i \in 1..Len(secs) |-> [secs[i] EXCEPT !.Ra = value]]

\* The cm setter: for s in self.sections: s.cm = value
SetCm(secs, value) == [i \in 1..Len(secs) |-> [secs[i] EXCEPT !.cm = value]]

\* self.Ra = 266.1, in tenths of an Ohm cm
PNRa == 2661

\* self.cm = 0.8, in tenths of a uF/cm2
PNCm == 8

\* g=1/20800, e=-60; g is counted in units of 1/20800 S/cm2
PNLeak == [g |-> 1, e |-> -60]

\* The keyword arguments passive and active of the call
PNFlags(passive, active) ==
    IF passive THEN (IF active THEN "passive,active" ELSE "passive")
    ELSE (IF active THEN "active" ELSE "neither")

\* insert(mechanism, **kwargs) with subset=None on the Section array secs
InsertAll(secs, mechanism, kwargs) ==
    [i \in 1..Len(secs) |-> InsertMech(secs[i], mechanism, kwargs)]

\* DrosophilaPN.__init__(x, res, passive, active): the __init__ of the base
\* class, the two setters, then insert('pas', g=..., e=...); passive and
\* active are not read
DrosophilaPN(passive, active) ==
    /\ status = "unbuilt"
    /\ IF ValidSkeleton(skeleton)
       THEN /\ sections' = InsertAll(
                               SetCm(SetRa(Generated(<<>>, skeleton, segments, res),
                                           PNRa),
                                     PNCm),
                               "pas", PNLeak)
            /\ sec_ix' = Node2Sec(skeleton, segments)
            /\ sec_pos' = Node2Pos(skeleton, segments)
            /\ main_t' = RecordTime(main_t, hoc)
            /\ hoc' = TraceCreated(hoc, main_t, main_t')
            /\ orig' = [orig EXCEPT !.sections = sections', !.builds = 1]
            /\ status' = "built"
            /\ err' = "none"
       ELSE /\ status' = "failed"
            /\ err' = "ValueError"
            /\ UNCHANGED <<sections, sec_ix, sec_pos, main_t, hoc, orig>>
    /\ log' = log \cup Warnings(skeleton)
    /\ op' = "DrosophilaPN.__init__"
    /\ arg' = PNFlags(passive, active)
    /\ UNCHANGED <<skeleton, segments, res, records, stimuli, synapses, ncalls, nobj, peer>>

(***************************************************************************)
(* run_simulation                                                          *)
(***************************************************************************)
\* The ids of the recorders of self.records
RecorderIds(recs) == {recs[key].id : key \in DOMAIN recs}

\* finitialize leaving the Vectors as the run before filled them
finitializeClockOnly(h, who, vecs, mt) == [h EXCEPT !.t = 0, !.runs = @ + 1, !.by = who]

\* neuron.h.finitialize(v_init): "This resets the entire model space not just
\* this neuron!": the clock restarts at 0 and every recording Vector of the
\* process, the time Vector included, is emptied to be filled by this run
finitialize(h, who, vecs, mt) ==
    [h EXCEPT !.t = 0, !.runs = @ + 1, !.by = who, !.recorded = vecs,
              !.trecorded = (mt # NoTrace), !.wiped = h.recorded]

\* neuron.h.continuerun(duration): the clock advances to duration
continuerun(h, duration) == [h EXCEPT !.t = duration]

MaxRuns == 2

\* run_simulation called on the Model `who` of the process
RunSimulation(who, duration) ==
    /\ hoc.runs < MaxRuns
    /\ hoc' = continuerun(finitialize(hoc, who, RecorderIds(records), main_t), duration)
    /\ err' = "none"
    /\ arg' = "none"
    /\ UNCHANGED <<skeleton, segments, res, status, sections, sec_ix, sec_pos, records,
                   stimuli, synapses, main_t, ncalls, nobj, log, peer, orig>>

run_simulation(duration) ==
    /\ Alive
    /\ op' = "run_simulation"
    /\ RunSimulation("self", duration)

(***************************************************************************)
(* The other Model of the process                                          *)
(***************************************************************************)
\* __init__ of a new Model, which takes the place of the other Model
ConstructPeer(sk, r) ==
    /\ peer.status # "built"
    /\ IF ValidSkeleton(sk)
       THEN /\ peer' = [status |-> "built", skeleton |-> sk, res |-> r,
                        sections |-> Generated(<<>>, sk, small_segments(sk), r)]
            /\ main_t' = RecordTime(main_t, hoc)
            /\ hoc' = TraceCreated(hoc, main_t, main_t')
            /\ err' = "none"
       ELSE /\ peer' = [status |-> "failed", skeleton |-> sk, res |-> r, sections |-> <<>>]
            /\ err' = "ValueError"
            /\ UNCHANGED <<main_t, hoc>>
    /\ log' = log \cup Warnings(sk)
    /\ op' = "peer.__init__"
    /\ arg' = "none"
    /\ UNCHANGED <<skeleton, segments, res, status, sections, sec_ix, sec_pos, records,
                   stimuli, synapses, ncalls, nobj, orig>>

\* clear called on the other Model
ClearPeer ==
    /\ peer.status = "built"
    /\ peer' = [peer EXCEPT !.status = "cleared", !.sections = <<>>]
    /\ op' = "peer.clear"
    /\ arg' = "none"
    /\ err' = "none"
    /\ UNCHANGED <<skeleton, segments, res, status, sections, sec_ix, sec_pos, records,
                   stimuli, synapses, main_t, ncalls, nobj, log, hoc, orig>>

\* run_simulation called on the other Model
RunPeer(duration) ==
    /\ peer.status \in {"built", "cleared"}
    /\ op' = "peer.run_simulation"
    /\ RunSimulation("peer", duration)

(***************************************************************************)
(* Inputs                                                                  *)
(***************************************************************************)
\* Parent functions of the forests on the nodes 1..n whose parents have
\* smaller ids
Parents(n) == {f \in [1..n -> 0..(n - 1)] : \A x \in 1..n : f[x] < x}

\* Skeletons on the nodes 1..n; the weight of a node is the weight of the
\* edge to its parent (0 for a root)
Skeletons(n, W, R) ==
    UNION {{[n |-> n,
             parent |-> p,
             weight |-> [x \in 1..n |-> IF p[x] = 0 THEN 0 ELSE w[x]],
             radius |-> rd,
             nan |-> {},
             hasradius |-> TRUE,
             units |-> "um"] :
                w \in [{x \in 1..n : p[x] # 0} -> W],
                rd \in [1..n -> R]} :
           p \in Parents(n)}

\* The skeleton with the parent list p, unit edge weights and radii
UnitSkeleton(p) ==
    [n |-> Len(p),
     parent |-> p,
     weight |-> [x \in 1..Len(p) |-> IF p[x] = 0 THEN 0 ELSE 1],
     radius |-> [x \in 1..Len(p) |-> 1],
     nan |-> {},
     hasradius |-> TRUE,
     units |-> "um"]

\* Skeletons with nested branch points: root -> branch -> {leaf, branch ->
\* {leaf, leaf}}, and a root with two children, one of them such a subtree;
\* a skeleton of two fragments root -> branch -> {leaf, leaf}
DeepSkeletons ==
    {UnitSkeleton(<<0, 1, 2, 2, 3, 3>>), UnitSkeleton(<<0, 1, 1, 2, 2, 4, 4>>),
     UnitSkeleton(<<0, 1, 2, 2, 0, 5, 6, 6>>)}

\* neuron.h when the module is imported
NewHoc == [t |-> 0, runs |-> 0, by |-> "none", ntrace |-> 0, recorded |-> {},
           trecorded |-> FALSE, wiped |-> {}]

\* A Model that is not constructed yet
NewPeer(sk, r) == [status |-> "unbuilt", skeleton |-> sk, res |-> r, sections |-> <<>>]

\* The process holds no other Model
NoPeer == NewPeer(UnitSkeleton(<<0, 1>>), 1)

InitModel ==
    /\ status = "unbuilt"
    /\ sections = <<>>
    /\ sec_ix = EmptyMap
    /\ sec_pos = EmptyMap
    /\ records = EmptyMap
    /\ stimuli = EmptyMap
    /\ synapses = EmptyMap
    /\ main_t = NoTrace
    /\ op = "none"
    /\ arg = "none"
    /\ err = "none"
    /\ ncalls = 0
    /\ nobj = 0
    /\ log = {}
    /\ hoc = NewHoc
    /\ orig = [sections |-> <<>>, builds |-> 0, clears |-> 0]

Init ==
    /\ \/ \E n \in 1..MaxNodes : skeleton \in Skeletons(n, 1..MaxWeight, {1})
       \/ skeleton \in DeepSkeletons
    /\ segments = small_segments(skeleton)
    /\ res \in 1..MaxRes
    /\ InitModel
    /\ peer = NoPeer

Next == Construct \/ clear

Spec == Init /\ [][Next]_vars

(***************************************************************************)
(* Skeletons of the scenarios, unit edge weights and radii                 *)
(***************************************************************************)
\* root -> mid -> leaf
LinearSkeleton == UnitSkeleton(<<0, 1, 2>>)

\* root -> {leaf, leaf}
VSkeleton == UnitSkeleton(<<0, 1, 1>>)

\* root -> branch node -> {leaf, leaf}
YSkeleton == UnitSkeleton(<<0, 1, 2, 2>>)

\* Sequences over S of length 1..n
SeqsUpTo(S, n) == UNION {[1..k -> S] : k \in 1..n}

\* `where`: node ids of the skeleton and one id that is absent from it
WhereInputs(sk, n) == SeqsUpTo(NodeIds(sk) \cup {sk.n + 1}, n)

WhatInputs ==
    {[isstr |-> TRUE, name |-> <<"v">>],
     [isstr |-> TRUE, name |-> <<"_ref_", "v">>],
     [isstr |-> TRUE, name |-> <<"m_hh">>],
     [isstr |-> FALSE, name |-> <<>>]}

LabelInputs == {NoLabel, "soma"}

\* subset of insert: None, one index, or a list of distinct indices
SubsetInputs(nsec) ==
    {[kind |-> "None", ixs |-> <<>>]}
    \cup {[kind |-> "int", ixs |-> <<i>>] : i \in 0..(nsec - 1)}
    \cup {[kind |-> "list", ixs |-> SortedSeq(S)] : S \in SUBSET (0..(nsec - 1))}

(***************************************************************************)
(* Recorders and mechanisms on the scenario skeletons                      *)
(***************************************************************************)
InitRec ==
    /\ skeleton \in {LinearSkeleton, VSkeleton, YSkeleton}
    /\ segments = small_segments(skeleton)
    /\ res = 1
    /\ InitModel
    /\ peer = NoPeer

AddRecord ==
    \E where \in WhereInputs(skeleton, MaxRecorders), what \in WhatInputs,
       label \in LabelInputs :
        /\ nobj + Len(where) <= MaxRecorders
        /\ _add_record(where, what, label)
        /\ UNCHANGED ncalls

Insert == \E subset \in SubsetInputs(Len(sections)) : insert("hh", subset, NoKwargs)

NextRec == Construct \/ AddRecord \/ Insert

SpecRec == InitRec /\ [][NextRec]_vars

(***************************************************************************)
(* Instrumentation calls with ids that may be absent from the skeleton     *)
(***************************************************************************)
\* root -> leaf
TwoNodeSkeleton == UnitSkeleton(<<0, 1>>)

InitStim ==
    /\ skeleton = TwoNodeSkeleton
    /\ segments = small_segments(skeleton)
    /\ res = 1
    /\ InitModel
    /\ peer = NoPeer

Counted(call) ==
    /\ ncalls < MaxCalls
    /\ call
    /\ ncalls' = ncalls + 1

AddStimulus ==
    \E where \in WhereInputs(skeleton, MaxWhere), stimulus \in {"IClamp", "AlphaSynapse"} :
        Counted(_add_stimulus(stimulus, where))

AddSynapticInput ==
    \E where \in WhereInputs(skeleton, MaxWhere) : Counted(add_synaptic_input(where))

AddVoltageRecord ==
    \E where \in WhereInputs(skeleton, MaxWhere), label \in LabelInputs :
        Counted(add_voltage_record(where, label))

NextStim == Construct \/ AddStimulus \/ AddSynapticInput \/ AddVoltageRecord

SpecStim == InitStim /\ [][NextStim]_vars

(***************************************************************************)
(* Construction from node tables with missing or non-positive radii, other *)
(* units and several roots                                                 *)
(***************************************************************************)
MaxValNodes == 3

\* skeleton.units: microns, nanometers, or no units
UnitInputs == {"um", "nm", "dimensionless"}

\* Node tables on the nodes 1..n with unit edge weights: radii that are
\* negative, zero or positive, at most one radius that is NaN, and tables
\* without radius column
ValSkeletons(n) ==
    UNION {{[n |-> n,
             parent |-> p,
             weight |-> [x \in 1..n |-> IF p[x] = 0 THEN 0 ELSE 1],
             radius |-> [x \in 1..n |-> IF x \in nn THEN 0 ELSE rd[x]],
             nan |-> nn,
             hasradius |-> h,
             units |-> u] :
                rd \in [1..n -> {-1, 0, 1}],
                nn \in {{}} \cup {{x} : x \in 1..n},
                h \in BOOLEAN,
                u \in UnitInputs} :
           p \in Parents(n)}

InitVal ==
    /\ \E n \in 1..MaxValNodes : skeleton \in ValSkeletons(n)
    /\ segments = small_segments(skeleton)
    /\ res = 1
    /\ InitModel
    /\ peer = NoPeer

NextVal == Construct \/ clear

SpecVal == InitVal /\ [][NextVal]_vars

(***************************************************************************)
(* Two Models in one process: constructions, clears, recorders and runs    *)
(***************************************************************************)
MaxDuration == 2

\* sk with the radius of node x set to 0
ZeroRadius(sk, x) == [sk EXCEPT !.radius[x] = 0]

\* Skeletons of the Models of the process; the last one fails validation
ProcSkeletons == {TwoNodeSkeleton, LinearSkeleton, ZeroRadius(TwoNodeSkeleton, 2)}

InitProc ==
    /\ skeleton \in ProcSkeletons
    /\ segments = small_segments(skeleton)
    /\ res = 1
    /\ InitModel
    /\ peer = NoPeer

NewPeerModel == \E sk \in ProcSkeletons : ConstructPeer(sk, res)

\* A recorder at the last node
RecordVoltage ==
    /\ nobj < MaxRecorders
    /\ add_voltage_record(<<skeleton.n>>, NoLabel)
    /\ UNCHANGED ncalls

Run == \E duration \in 1..MaxDuration : run_simulation(duration)

RunOnPeer == \E duration \in 1..MaxDuration : RunPeer(duration)

NextProc ==
    \/ Construct
    \/ clear
    \/ _generate_sections
    \/ NewPeerModel
    \/ ClearPeer
    \/ RecordVoltage
    \/ Run
    \/ RunOnPeer

SpecProc == InitProc /\ [][NextProc]_vars

(***************************************************************************)
(* Mechanisms with parameters, on all Sections and on subsets              *)
(***************************************************************************)
MechInputs == {"pas", "hh"}

\* **kwargs: nothing, one parameter, two parameters
KwargInputs == {NoKwargs, [g |-> 1], [g |-> 2, e |-> 1]}

InitMech ==
    /\ skeleton \in {LinearSkeleton, VSkeleton}
    /\ segments = small_segments(skeleton)
    /\ res = 1
    /\ InitModel
    /\ peer = NoPeer

InsertMechanism ==
    \E mechanism \in MechInputs, subset \in SubsetInputs(Len(sections)),
       kwargs \in KwargInputs :
        insert(mechanism, subset, kwargs)

UninsertMechanism ==
    \E mechanism \in MechInputs, subset \in SubsetInputs(Len(sections)) :
        uninsert(mechanism, subset)

NextMech == Construct \/ InsertMechanism \/ UninsertMechanism

SpecMech == InitMech /\ [][NextMech]_vars

(***************************************************************************)
(* The life of a Model between construction and clear, next to another     *)
(* Model of the process                                                    *)
(***************************************************************************)
InitLife ==
    /\ skeleton = YSkeleton
    /\ segments = small_segments(skeleton)
    /\ res = 1
    /\ InitModel
    /\ peer = NoPeer

\* `where` of the calls: a leaf, an id absent from the skeleton
LifeWhere == {<<skeleton.n>>, <<skeleton.n + 1>>}

LifeAddRecord ==
    \E where \in LifeWhere : Counted(add_voltage_record(where, NoLabel))

LifeAddStimulus ==
    \E where \in LifeWhere : Counted(_add_stimulus("IClamp", where))

LifeAddSynapticInput ==
    \E where \in LifeWhere : Counted(add_synaptic_input(where))

LifeInsert == \E subset \in {NoSubset, [kind |-> "list", ixs |-> <<1>>]} :
                  insert("hh", subset, NoKwargs)

LifeUninsert == uninsert("hh", NoSubset)

LifeRun == run_simulation(1)

LifePeer == ConstructPeer(TwoNodeSkeleton, res)

NextLife ==
    \/ Construct
    \/ clear
    \/ clear_records
    \/ clear_stimuli
    \/ clear_synapses
    \/ LifeAddRecord
    \/ LifeAddStimulus
    \/ LifeAddSynapticInput
    \/ LifeInsert
    \/ LifeUninsert
    \/ LifeRun
    \/ LifePeer
    \/ ClearPeer

SpecLife == InitLife /\ [][NextLife]_vars

(***************************************************************************)
(* DrosophilaPN models with every combination of passive and active, and   *)
(* mechanisms inserted and removed afterwards                              *)
(***************************************************************************)
\* Skeletons of the projection neuron models; the last one fails validation
PNSkeletons == {LinearSkeleton, VSkeleton, YSkeleton, ZeroRadius(TwoNodeSkeleton, 2)}

InitPN ==
    /\ skeleton \in PNSkeletons
    /\ segments = small_segments(skeleton)
    /\ res \in 1..MaxRes
    /\ InitModel
    /\ peer = NoPeer

ConstructPN == \E passive \in BOOLEAN, active \in BOOLEAN : DrosophilaPN(passive, active)

\* subset of the later calls: None, or the list holding the index 1
PNSubsets == {NoSubset, [kind |-> "list", ixs |-> <<1>>]}

PNInsert ==
    \E mechanism \in MechInputs, subset \in PNSubsets : insert(mechanism, subset, NoKwargs)

PNUninsert ==
    \E mechanism \in MechInputs, subset \in PNSubsets : uninsert(mechanism, subset)

NextPN == ConstructPN \/ PNInsert \/ PNUninsert \/ clear

SpecPN == InitPN /\ [][NextPN]_vars

(***************************************************************************)
(* Construction and clear on skeletons whose radii differ from node to     *)
(* node                                                                    *)
(***************************************************************************)
MaxRadius == 2

\* sk with the radius of node x missing (NaN)
NanRadius(sk, x) == [sk EXCEPT !.radius[x] = 0, !.nan = {x}]

\* Skeletons with a missing radius at a branch point, at a leaf, and at the
\* only node a Section has besides its branch point
NanSkeletons ==
    {NanRadius(YSkeleton, 2), NanRadius(YSkeleton, 3), NanRadius(VSkeleton, 1),
     NanRadius(LinearSkeleton, 2)}

InitDiam ==
    /\ \/ \E n \in 1..MaxNodes : skeleton \in Skeletons(n, {1}, 1..MaxRadius)
       \/ skeleton \in NanSkeletons
    /\ segments = small_segments(skeleton)
    /\ res = 1
    /\ InitModel
    /\ peer = NoPeer

NextDiam == Construct \/ clear

SpecDiam == InitDiam /\ [][NextDiam]_vars

(***************************************************************************)
(* Calls on a Model before and after clear, and after a rebuild            *)
(***************************************************************************)
InitCleared ==
    /\ skeleton = YSkeleton
    /\ segments = small_segments(skeleton)
    /\ res = 1
    /\ InitModel
    /\ peer = NoPeer

\* `where` of the calls: a leaf, a leaf and the root, an id absent from the
\* skeleton, a leaf and an absent id
ClearedWhere ==
    {<<skeleton.n>>, <<skeleton.n, 1>>, <<skeleton.n + 1>>, <<skeleton.n, skeleton.n + 1>>}

\* `what` of _add_record: the voltage, and a value that is no string
ClearedWhat == {[isstr |-> TRUE, name |-> <<"v">>], [isstr |-> FALSE, name |-> <<>>]}

ClearedAddRecord ==
    \E where \in ClearedWhere, what \in ClearedWhat :
        Counted(_add_record(where, what, NoLabel))

ClearedAddStimulus ==
    \E where \in ClearedWhere : Counted(_add_stimulus("IClamp", where))

ClearedAddSynapticInput ==
    \E where \in ClearedWhere : Counted(add_synaptic_input(where))

ClearedInsert == insert("hh", NoSubset, NoKwargs)

ClearedUninsert == uninsert("hh", NoSubset)

NextCleared ==
    \/ Construct
    \/ clear
    \/ _generate_sections
    \/ clear_records
    \/ ClearedAddRecord
    \/ ClearedAddStimulus
    \/ ClearedAddSynapticInput
    \/ ClearedInsert
    \/ ClearedUninsert

SpecCleared == InitCleared /\ [][NextCleared]_vars

(***************************************************************************)
(* Properties                                                              *)
(***************************************************************************)
PosEq(a, b) == a[1] * b[2] = b[1] * a[2]

PosLeq(a, b) == a[1] * b[2] <= b[1] * a[2]

Segs == segments

\* The last node of a child -> parent segment is its proximal node
Proximal(seg) == seg[Len(seg)]

Distal(seg) == seg[1]

\* Scenario skeletons
IsLinear3 ==
    /\ skeleton.n = 3
    /\ skeleton.parent = <<0, 1, 2>>
    /\ skeleton.weight = <<0, 1, 1>>

IsYShape == skeleton.n = 4 /\ skeleton.parent = <<0, 1, 2, 2>>

IsVShape == skeleton.n = 3 /\ skeleton.parent = <<0, 1, 1>>

\* C1: after _generate_sections every skeleton node id has exactly one defined
\* (sec_ix, sec_pos) pair: the key set of the node -> location map is the
\* node-id set, and every node is in the node set of exactly one Segment.
C1_EveryNodeMappedOnce ==
    status = "built" =>
        /\ DOMAIN sec_ix = NodeIds(skeleton)
        /\ DOMAIN sec_pos = NodeIds(skeleton)
        /\ \A x \in NodeIds(skeleton) :
              Cardinality({i \in 1..Len(Segs) : x \in Range(SegNodes(skeleton, Segs[i]))}) = 1

\* C2: every Section whose Segment has a non-root proximal node is connected
\* to the Section that contains that node, at that node's own sec_pos; in the
\* Y-shaped skeleton there are 3 Sections and both leaf Sections are attached
\* to the branch Section at position 1.
C2_ConnectedAtParentNode ==
    status = "built" =>
        /\ \A i \in 1..Len(sections) :
              LET prox == Proximal(Segs[i])
              IN prox \notin Roots(skeleton) =>
                    /\ prox \in DOMAIN sec_ix
                    /\ sections[i].parent = sec_ix[prox]
                    /\ sections[i].parent \in 0..(Len(sections) - 1)
                    /\ prox \in Range(SegNodes(skeleton, Segs[sections[i].parent + 1]))
                    /\ PosEq(sections[i].parentx, sec_pos[prox])
        /\ IsYShape =>
              /\ Len(sections) = 3
              /\ \A i \in 1..Len(sections) :
                    Distal(Segs[i]) \in {3, 4} =>
                        /\ sections[i].parent = sec_ix[2]
                        /\ Distal(Segs[sections[i].parent + 1]) = 2
                        /\ sections[i].parentx = <<1, 1>>

C2_Witness ==
    /\ status = "built"
    /\ IsYShape
    /\ Len(sections) = 3
    /\ \E i \in 1..Len(sections) : sections[i].parent # NoParent

\* The root of the fragment a node belongs to
RECURSIVE FragmentRoot(_, _)
FragmentRoot(sk, x) == IF sk.parent[x] = 0 THEN x ELSE FragmentRoot(sk, sk.parent[x])

\* The Sections built from the Segments of the fragment rooted at r
FragmentSections(r) ==
    {i \in 1..Len(sections) : FragmentRoot(skeleton, Distal(Segs[i])) = r}

\* C3: the Sections of one fragment form one connected tree of Sections: each
\* fragment that has Sections has exactly one parentless Section, also when
\* its root has two or more children.
C3_OneRootSectionPerFragment ==
    status = "built" =>
        \A r \in Roots(skeleton) :
            FragmentSections(r) # {} =>
                Cardinality({i \in FragmentSections(r) : sections[i].parent = NoParent}) = 1

\* C5: no subdivision of a Section is longer than res unless nseg = 1.
C5_SubdivisionAtMostRes ==
    status = "built" =>
        \A i \in 1..Len(sections) :
            sections[i].nseg = 1 \/ sections[i].L <= res * sections[i].nseg

\* C6: nseg is odd, at least 1, and (nseg - 1) / 2 is the floor of L / (2 res);
\* the 3-node linear skeleton with unit edges and res = 1 has nseg = 3.
C6_NsegOddFloor ==
    status = "built" =>
        /\ \A i \in 1..Len(sections) :
              /\ sections[i].nseg >= 1
              /\ sections[i].nseg % 2 = 1
              /\ (sections[i].nseg - 1) * res <= sections[i].L
              /\ sections[i].L < (sections[i].nseg + 1) * res
        /\ (IsLinear3 /\ res = 1) => (Len(sections) = 1 /\ sections[1].nseg = 3)

\* A Section whose length is a positive multiple of 2 * res
C6_Witness ==
    /\ status = "built"
    /\ \E i \in 1..Len(sections) :
          /\ sections[i].L > 0
          /\ sections[i].L % (2 * res) = 0
          /\ sections[i].nseg >= 3

\* C7: every resolved sec_pos is in [0, 1]; along each Segment the positions
\* do not decrease from parent to child; the distal node of every Segment is
\* at 1; a root is at 0; a non-root branch point is mapped only in the Segment
\* it ends, at position 1.
C7_PositionsOrdered ==
    status = "built" =>
        /\ \A x \in DOMAIN sec_pos :
              /\ sec_pos[x][2] > 0
              /\ 0 <= sec_pos[x][1]
              /\ sec_pos[x][1] <= sec_pos[x][2]
        /\ \A i \in 1..Len(Segs) :
              /\ \A k \in 1..(Len(Segs[i]) - 1) :
                    \* the pairs of the Segment's own node set: its proximal
                    \* node belongs to it only if it is a root
                    (/\ k + 1 < Len(Segs[i]) \/ Segs[i][k + 1] \in Roots(skeleton)
                     /\ Segs[i][k] \in DOMAIN sec_pos
                     /\ Segs[i][k + 1] \in DOMAIN sec_pos)
                        => PosLeq(sec_pos[Segs[i][k + 1]], sec_pos[Segs[i][k]])
              /\ Distal(Segs[i]) \in DOMAIN sec_pos
              /\ PosEq(sec_pos[Distal(Segs[i])], <<1, 1>>)
              /\ sec_ix[Distal(Segs[i])] = i - 1
        /\ \A x \in Roots(skeleton) \cap DOMAIN sec_pos : sec_pos[x][1] = 0
        /\ \A x \in NodeIds(skeleton) :
              (IsBranch(skeleton, x) /\ x \notin Roots(skeleton)) =>
                  /\ x \in DOMAIN sec_pos
                  /\ PosEq(sec_pos[x], <<1, 1>>)
                  /\ \A i \in 1..Len(Segs) : sec_ix[x] = i - 1 => Distal(Segs[i]) = x

\* A skeleton with a non-root branch point whose children are mapped too
C7_Witness ==
    /\ status = "built"
    /\ \E x \in NodeIds(skeleton) :
          /\ IsBranch(skeleton, x)
          /\ x \notin Roots(skeleton)
          /\ PosEq(sec_pos[x], <<1, 1>>)
          /\ \A c \in Children(skeleton, x) : c \in DOMAIN sec_pos /\ sec_ix[c] # sec_ix[x]

\* Number of maximal unbranched chains, counted at their proximal edge: the
\* edges whose parent end is a root or a branch point
NumChains(sk) ==
    Cardinality({c \in NodeIds(sk) : sk.parent[c] # 0 /\ IsStop(sk, sk.parent[c])})

IsLinearChain(sk) ==
    /\ sk.n >= 2
    /\ \A x \in NodeIds(sk) : sk.parent[x] = x - 1

\* C8: there is one Section per maximal unbranched chain, Section i is built
\* from Segment i, and a linear chain of N >= 2 nodes yields exactly 1 Section.
C8_OneSectionPerSegment ==
    status = "built" =>
        /\ Len(sections) = NumChains(skeleton)
        /\ Len(sections) = Len(Segs)
        /\ \A i \in 1..Len(sections) :
              /\ sections[i].name = i - 1
              /\ sections[i].L = SeqSum([k \in 1..(Len(Segs[i]) - 1) |->
                                            skeleton.weight[Segs[i][k]]])
        /\ IsLinearChain(skeleton) => Len(sections) = 1

C8_Witness ==
    /\ status = "built"
    /\ Len(sections) = 3
    /\ \E i \in 1..Len(sections) : Len(Segs[i]) = 2

C8_WitnessLinear ==
    /\ status = "built"
    /\ IsLinearChain(skeleton)
    /\ skeleton.n = 4

\* The recorders stored under a key of the records registry
StoredUnder(recs, key) == IF key \in DOMAIN recs THEN {recs[key]} ELSE {}

RecordKey(label, node) == IF Truthy(label) THEN LabelKey(label) ELSE NodeKey(node)

C9_MissingIdNoMutation ==
    [][(/\ op' \in {"_add_record", "_add_stimulus", "add_synaptic_input"}
        /\ arg' \in {"missing_first", "valid_then_missing"})
          => /\ err' = "KeyError"
             /\ records' = records
             /\ stimuli' = stimuli
             /\ synapses' = synapses
      ]_vars

\* A call failed on an absent id that came after an id of the skeleton, with
\* entries already in the registries
C9_Witness ==
    /\ op \in {"_add_stimulus", "add_synaptic_input"}
    /\ arg = "valid_then_missing"
    /\ err = "KeyError"
    /\ stimuli # EmptyMap

\* The state variable is not available at one of the targets
Unavailable(where, what) ==
    \E k \in 1..Len(where) :
        ~NoSection(where[k]) /\ ~HasVar(SectionOf(where[k]), RefName(what.name))

\* C10: _add_record with a non-string state variable, or with a name that is
\* not available at one of the targets, fails and leaves the records registry
\* unchanged.
C10_FailedRecordNoMutation ==
    [][\A where \in WhereInputs(skeleton, MaxRecorders), what \in WhatInputs,
          label \in LabelInputs :
            (/\ _add_record(where, what, label)
             /\ \/ ~what.isstr
                \/ ~LookupFails(skeleton, where) /\ Unavailable(where, what))
                => (err' # "none" /\ records' = records)
      ]_vars

\* A node without a defined, positive radius
BadRadius(sk) ==
    \/ ~sk.hasradius
    \/ \E x \in NodeIds(sk) : x \in sk.nan \/ sk.radius[x] <= 0

\* C11: construction of a Model from a skeleton with a missing (undefined) or
\* non-positive radius fails with the validation error, before any Section
\* and before the shared time trace is created.
C11_BadRadiusFailsBeforeBuild ==
    (op = "__init__" /\ BadRadius(skeleton)) =>
        /\ status = "failed"
        /\ err = "ValueError"
        /\ sections = <<>>
        /\ main_t = NoTrace

\* Following the parent links from Section i reaches a parentless Section in
\* at most fuel steps
RECURSIVE ReachesRoot(_, _, _)
ReachesRoot(secs, i, fuel) ==
    IF secs[i].parent = NoParent THEN TRUE
    ELSE IF fuel = 0 \/ secs[i].parent \notin 0..(Len(secs) - 1) THEN FALSE
    ELSE ReachesRoot(secs, secs[i].parent + 1, fuel - 1)

\* C12: following the parent links from any Section reaches a parentless
\* Section in a finite number of steps: the parent relation has no cycle and
\* no Section is connected to itself.
C12_ParentLinksAcyclic ==
    status = "built" =>
        \A i \in 1..Len(sections) :
            /\ sections[i].parent # i - 1
            /\ ReachesRoot(sections, i, Len(sections))

\* A Section whose parent Section has a parent Section, which is parentless
C12_Witness ==
    /\ status = "built"
    /\ \E i \in 1..Len(sections) :
          /\ sections[i].parent # NoParent
          /\ sections[sections[i].parent + 1].parent # NoParent
          /\ sections[sections[sections[i].parent + 1].parent + 1].parent = NoParent

\* Number of times node n is a target of `where`
Occ(where, n) == Cardinality({k \in 1..Len(where) : where[k] = n})

\* The list stored under node n in a registry
ListAt(d, n) == IF n \in DOMAIN d THEN d[n] ELSE <<>>

\* The entries a call added to the list of node n, given that it kept the
\* entries that were there
Added(d, dnew, n) == SubSeq(ListAt(dnew, n), Len(ListAt(d, n)) + 1, Len(ListAt(dnew, n)))

KeepsEntries(d, dnew, n) ==
    /\ Len(ListAt(d, n)) <= Len(ListAt(dnew, n))
    /\ SubSeq(ListAt(dnew, n), 1, Len(ListAt(d, n))) = ListAt(d, n)

\* C13: a successful add_synaptic_input call creates one spike generator
\* shared by all its targets and, per target, appends one synapse to the
\* node's synapse list and the connector plus the generator to the node's
\* stimulus list; a successful _add_stimulus call appends one stimulus per
\* target; the entries already in the lists are kept.  A call that succeeds
\* has only node ids of the skeleton in `where`.
C13_CallsAppend ==
    [][/\ (op' = "add_synaptic_input" /\ err' = "none") =>
            \A where \in SeqsUpTo(NodeIds(skeleton), MaxWhere) :
              (/\ nobj' = nobj + 1 + 2 * Len(where)
               /\ add_synaptic_input(where)) =>
                  \A n \in NodeIds(skeleton) :
                    /\ KeepsEntries(synapses, synapses', n)
                    /\ KeepsEntries(stimuli, stimuli', n)
                    /\ Len(Added(synapses, synapses', n)) = Occ(where, n)
                    /\ Len(Added(stimuli, stimuli', n)) = 2 * Occ(where, n)
                    /\ \A k \in 1..Occ(where, n) :
                          LET syn == Added(synapses, synapses', n)[k]
                              con == Added(stimuli, stimuli', n)[2 * k - 1]
                              gen == Added(stimuli, stimuli', n)[2 * k]
                          IN /\ syn.kind = "Exp2Syn" /\ syn.node = n /\ syn.id > nobj
                             /\ con.kind = "NetCon" /\ con.node = n /\ con.id > nobj
                             /\ con.src = nobj + 1
                             /\ gen.kind = "NetStim" /\ gen.id = nobj + 1
       /\ (op' = "_add_stimulus" /\ err' = "none") =>
            \A where \in SeqsUpTo(NodeIds(skeleton), MaxWhere),
               stimulus \in {"IClamp", "AlphaSynapse"} :
              (/\ nobj' = nobj + Len(where)
               /\ _add_stimulus(stimulus, where)) =>
                  /\ synapses' = synapses
                  /\ \A n \in NodeIds(skeleton) :
                        /\ KeepsEntries(stimuli, stimuli', n)
                        /\ Len(Added(stimuli, stimuli', n)) = Occ(where, n)
                        /\ \A k \in 1..Occ(where, n) :
                              /\ Added(stimuli, stimuli', n)[k].kind = stimulus
                              /\ Added(stimuli, stimuli', n)[k].node = n
                              /\ Added(stimuli, stimuli', n)[k].id > nobj
      ]_vars

\* Two add_synaptic_input calls targeted one node: its synapse list holds two
\* synapses, its stimulus list two connectors on two different generators
C13_Witness ==
    /\ op = "add_synaptic_input"
    /\ err = "none"
    /\ \E n \in DOMAIN synapses :
          /\ Len(synapses[n]) = 2
          /\ synapses[n][1].id # synapses[n][2].id
          /\ Len(stimuli[n]) = 4
          /\ stimuli[n][2].kind = "NetStim"
          /\ stimuli[n][4].kind = "NetStim"
          /\ stimuli[n][2].id # stimuli[n][4].id

\* A construction that returned a Model
Constructed == op' \in {"__init__", "peer.__init__"} /\ err' = "none"

\* C14: over the constructions, clears and runs of one process the shared
\* time trace is created at most once, by the first construction that
\* succeeds; every Model's t is that trace; no later construction, clear or
\* run replaces it.
C14_TimeTraceCreatedOnce ==
    [][/\ hoc'.ntrace <= 1
       /\ t' = main_t'
       /\ main_t # NoTrace => (main_t' = main_t /\ hoc'.ntrace = hoc.ntrace)
       /\ main_t = NoTrace =>
             IF Constructed THEN main_t' # NoTrace /\ hoc'.ntrace = 1
             ELSE main_t' = NoTrace /\ hoc'.ntrace = 0
      ]_vars

\* A second Model was constructed after the first one was cleared and a run
\* was made, and the trace is still the first one
C14_Witness ==
    /\ op = "peer.__init__"
    /\ err = "none"
    /\ status = "cleared"
    /\ hoc.runs > 0
    /\ main_t = 1
    /\ hoc.ntrace = 1

\* The contents of a recording Vector: the run that filled it, or nothing
NoData == [run |-> 0, by |-> "none", tstop |-> 0]

RunData(h) == [run |-> h.runs, by |-> h.by, tstop |-> h.t]

\* What a Model reads from the recorder with the given id
RecorderData(h, id) == IF id \in h.recorded THEN RunData(h) ELSE NoData

\* What a Model reads from its t
TimeData(h) == IF h.trecorded THEN RunData(h) ELSE NoData

\* C15: run_simulation on the other Model reinitializes the shared solver
\* state for this Model too: the time trace and every recorder this Model
\* reads hold the new run, not the results they held before, and the shared
\* clock is at the requested duration.
C15_RunResetsEveryModel ==
    [][\A duration \in 1..MaxDuration :
          RunPeer(duration) =>
              /\ hoc'.t = duration
              /\ hoc'.runs = hoc.runs + 1
              /\ TimeData(hoc') = [run |-> hoc.runs + 1, by |-> "peer", tstop |-> duration]
              /\ t' = t
              /\ records' = records
              /\ \A key \in DOMAIN records :
                    /\ RecorderData(hoc', records[key].id)
                          = [run |-> hoc.runs + 1, by |-> "peer", tstop |-> duration]
                    /\ RecorderData(hoc', records[key].id)
                          # RecorderData(hoc, records[key].id)
      ]_vars

\* The other Model ran while a recorder of this Model held the results of
\* the run before; the recorder holds the run of the other Model
C15_Witness ==
    /\ op = "peer.run_simulation"
    /\ status = "built"
    /\ peer.status = "built"
    /\ hoc.runs = 2
    /\ \E key \in DOMAIN records :
          /\ records[key].id \in hoc.wiped
          /\ RecorderData(hoc, records[key].id).by = "peer"

\* C16: insert(mechanism, subset=None, **params) inserts the mechanism in
\* every Section and sets every given parameter in every subdivision of
\* every Section; uninsert(mechanism) removes the mechanism from the Sections
\* that have it and leaves the Sections that never had it as they are,
\* without error.
C16_InsertEverywhereUninsertGuarded ==
    [][\A mechanism \in MechInputs :
          /\ \A kwargs \in KwargInputs :
                insert(mechanism, NoSubset, kwargs) =>
                    /\ err' = "none"
                    /\ Len(sections') = Len(sections)
                    /\ \A i \in 1..Len(sections') :
                          /\ mechanism \in sections'[i].mechs
                          /\ Len(sections'[i].par[mechanism]) = sections'[i].nseg
                          /\ \A k \in 1..sections'[i].nseg, n \in DOMAIN kwargs :
                                sections'[i].par[mechanism][k][n] = kwargs[n]
          /\ uninsert(mechanism, NoSubset) =>
                /\ err' = "none"
                /\ Len(sections') = Len(sections)
                /\ \A i \in 1..Len(sections') :
                      /\ mechanism \notin sections'[i].mechs
                      /\ sections'[i].mechs = sections[i].mechs \ {mechanism}
                      /\ mechanism \notin sections[i].mechs => sections'[i] = sections[i]
      ]_vars

\* A mechanism was inserted with two parameters in a Section of three
\* subdivisions
C16_Witness ==
    /\ op = "insert"
    /\ \E i \in 1..Len(sections) :
          /\ sections[i].nseg = 3
          /\ "pas" \in sections[i].mechs
          /\ \A k \in 1..3 : sections[i].par["pas"][k] = [g |-> 2, e |-> 1]

\* uninsert ran on two Sections of which only one had the mechanism
C16_WitnessUninsert ==
    /\ op = "uninsert"
    /\ err = "none"
    /\ Len(sections) = 2
    /\ sections[1].mechs = {}
    /\ sections[2].mechs = {"hh"}

C17_WitnessPeer ==
    /\ op = "peer.clear"
    /\ stimuli # EmptyMap
    /\ synapses # EmptyMap
    /\ sections # <<>>

\* Name, length, diameter, nseg and parent link of every Section, in order
Geometry(secs) ==
    [i \in 1..Len(secs) |->
        [name |-> secs[i].name, L |-> secs[i].L, diam |-> secs[i].diam,
         nseg |-> secs[i].nseg, parent |-> secs[i].parent, parentx |-> secs[i].parentx]]

\* C19: between construction and clear() no operation changes the number or
\* order of the Sections, their parent links or the node -> (sec_ix, sec_pos)
\* map: Section i stays the Section of Segment i.
C19_SectionsStable ==
    [][(status = "built" /\ status' = "built") =>
          /\ Geometry(sections') = Geometry(sections)
          /\ sec_ix' = sec_ix
          /\ sec_pos' = sec_pos
          /\ segments' = segments
          /\ Len(sections') = Len(segments')
          /\ \A i \in 1..Len(sections') :
                /\ sections'[i].name = i - 1
                /\ sections'[i].L = segment_length(skeleton', segments'[i])
      ]_vars

\* A run was made on a Model with an inserted mechanism, a recorder and a
\* stimulus, whose Sections are connected
C19_Witness ==
    /\ status = "built"
    /\ op = "run_simulation"
    /\ records # EmptyMap
    /\ stimuli # EmptyMap
    /\ \E i \in 1..Len(sections) :
          "hh" \in sections[i].mechs /\ sections[i].parent # NoParent

\* Construction completed with the warnings of the skeleton logged
WarnedAndBuilt ==
    /\ status = "built"
    /\ err = "none"
    /\ Warnings(skeleton) \subseteq log

\* No Section is connected to a Section of another fragment
NoCrossFragmentLinks ==
    \A i \in 1..Len(sections) :
        sections[i].parent # NoParent =>
            /\ sections[i].parent \in 0..(Len(sections) - 1)
            /\ FragmentRoot(skeleton, Distal(Segs[sections[i].parent + 1]))
                  = FragmentRoot(skeleton, Distal(Segs[i]))

\* C18: the construction from a skeleton with several roots or with units
\* other than microns only warns and completes, builds Sections for every
\* fragment, and connects no Section to a Section of another fragment.
C18_WarnOnlyPerFragment ==
    (op = "__init__" /\ ValidSkeleton(skeleton) /\ Warnings(skeleton) # {}) =>
        /\ WarnedAndBuilt
        /\ \A r \in Roots(skeleton) : FragmentSections(r) # {}
        /\ NoCrossFragmentLinks

\* The part of C18 that does not speak of every fragment: the construction
\* only warns and completes, and no Section is connected across fragments.
C18_WarnOnlyNoCrossLinks ==
    (op = "__init__" /\ ValidSkeleton(skeleton) /\ Warnings(skeleton) # {}) =>
        /\ WarnedAndBuilt
        /\ NoCrossFragmentLinks

\* A skeleton of two fragments was built, with connected Sections in both
C18_WitnessTwoFragments ==
    /\ WarnedAndBuilt
    /\ "multiple_roots" \in log
    /\ \E i, j \in 1..Len(sections) :
          /\ sections[i].parent # NoParent
          /\ sections[j].parent # NoParent
          /\ FragmentRoot(skeleton, Distal(Segs[i])) # FragmentRoot(skeleton, Distal(Segs[j]))

PassiveAsked == arg \in {"passive", "passive,active"}

\* The call had active=True
ActiveAsked == arg \in {"active", "passive,active"}

\* DrosophilaPN.__init__ returned a Model
PNBuilt == op = "DrosophilaPN.__init__" /\ status = "built"

\* C21: a DrosophilaPN has 'pas' on all its Sections when it was constructed
\* with passive=True and on none of them when it was constructed with
\* passive=False, and it has a mechanism besides 'pas' (active membrane
\* properties) on its Sections when it was constructed with active=True
C21_PassiveActiveFlags ==
    PNBuilt =>
        /\ PassiveAsked => \A i \in 1..Len(sections) : "pas" \in sections[i].mechs
        /\ ~PassiveAsked => \A i \in 1..Len(sections) : "pas" \notin sections[i].mechs
        /\ ActiveAsked => \A i \in 1..Len(sections) : sections[i].mechs \ {"pas"} # {}

\* What the constructor does for every value of passive and active: 'pas'
\* with g and e set in every segment of every Section, no other mechanism,
\* Ra and cm set on every Section
C21_AlwaysPassiveOnly ==
    PNBuilt =>
        \A i \in 1..Len(sections) :
            /\ sections[i].mechs = {"pas"}
            /\ \A k \in 1..sections[i].nseg : sections[i].par["pas"][k] = PNLeak
            /\ sections[i].Ra = PNRa
            /\ sections[i].cm = PNCm

\* A DrosophilaPN constructed with passive=False and active=True
C21_WitnessNotPassive == PNBuilt /\ arg = "active" /\ Len(sections) > 1

(***************************************************************************)
(* C22: the diameter of a Section                                          *)
(***************************************************************************)
\* The nodes whose sec_ix points to the Section with index i
OwnNodes(i) == {x \in DOMAIN sec_ix : sec_ix[x] = i}

\* The nodes of the Segment of Section i: its own nodes and the node the
\* chain of own nodes hangs on (the proximal node when it is not an own node)
SegmentNodes(i) ==
    OwnNodes(i) \cup ({skeleton.parent[x] : x \in OwnNodes(i)} \ {0})

\* Sum of the radii of the nodes of S
RECURSIVE SumRadius(_)
SumRadius(S) ==
    IF S = {} THEN 0
    ELSE LET x == CHOOSE y \in S : TRUE IN skeleton.radius[x] + SumRadius(S \ {x})

\* Twice the mean radius of the nodes of S that have a radius, as a fraction
TwiceMeanRadius(S) ==
    LET def == S \ skeleton.nan IN <<2 * SumRadius(def), Cardinality(def)>>

\* C22: the diameter of every Section is twice the mean radius of the nodes
\* whose sec_ix points to the Section (the proximal branch node of a non-root
\* Segment is not counted); the linear skeleton of 3 nodes with radius 1 has
\* one Section of length 2 and diameter 2
C22_DiamOverOwnNodes ==
    status = "built" =>
        /\ \A i \in 1..Len(sections) :
               PosEq(sections[i].diam, TwiceMeanRadius(OwnNodes(i - 1)))
        /\ skeleton = LinearSkeleton =>
               /\ Len(sections) = 1
               /\ sections[1].L = 2
               /\ PosEq(sections[1].diam, <<2, 1>>)

\* C22 as amended: the diameter of every Section is twice the mean of the
\* radii (those that are not missing) of all nodes of its Segment, the
\* proximal node included also where it is a branch point or a root that
\* belongs to another Section; the linear skeleton of 3 nodes with radius 1
\* has one Section of length 2 and diameter 2
C22_DiamOverSegmentNodes ==
    status = "built" =>
        /\ \A i \in 1..Len(sections) :
               /\ PosEq(sections[i].diam, TwiceMeanRadius(SegmentNodes(i - 1)))
               /\ sections[i].diam[2] = Cardinality(SegmentNodes(i - 1) \ skeleton.nan)
        /\ skeleton = LinearSkeleton =>
               /\ Len(sections) = 1
               /\ sections[1].L = 2
               /\ PosEq(sections[1].diam, <<2, 1>>)

\* A built Model with a Section below a branch point whose radius differs
\* from the mean radius of the Section's own nodes
C22_Witness ==
    /\ status = "built"
    /\ op = "__init__"
    /\ \E i \in 1..Len(sections) :
           /\ sections[i].parent # NoParent
           /\ OwnNodes(i - 1) # {}
           /\ ~PosEq(sections[i].diam, TwiceMeanRadius(OwnNodes(i - 1)))

\* The linear skeleton of 3 nodes, built
C22_WitnessLinear == status = "built" /\ skeleton = LinearSkeleton

(***************************************************************************)
(* C23: insert and uninsert with an explicit subset                        *)
(***************************************************************************)
\* The values of subset other than None
ExplicitSubsets == SubsetInputs(Len(sections)) \ {NoSubset}

\* The Sections whose index is not in the subset are as they were
OthersUnchanged(subset) ==
    /\ Len(sections') = Len(sections)
    /\ \A i \in 1..Len(sections) :
          (i - 1) \notin Range(subset.ixs) => sections'[i] = sections[i]

\* C23: insert and uninsert with an explicit subset give the Sections named
\* by the subset the mechanism (take it from them) and leave every other
\* Section as it was, for every subset, the single index 0 and the empty list
\* included
C23_SubsetChangesNamedOnly ==
    [][\A mechanism \in MechInputs, subset \in ExplicitSubsets :
          /\ \A kwargs \in KwargInputs :
                insert(mechanism, subset, kwargs) =>
                    /\ OthersUnchanged(subset)
                    /\ \A i \in 1..Len(sections) :
                          (i - 1) \in Range(subset.ixs) => mechanism \in sections'[i].mechs
          /\ uninsert(mechanism, subset) =>
                /\ OthersUnchanged(subset)
                /\ \A i \in 1..Len(sections) :
                      (i - 1) \in Range(subset.ixs) => mechanism \notin sections'[i].mechs
      ]_vars

\* The same for the subsets that are not falsy: an index other than 0 and a
\* list that is not empty
C23_TruthySubsetChangesNamedOnly ==
    [][\A mechanism \in MechInputs, subset \in ExplicitSubsets :
          ~SubsetFalsy(subset) =>
              /\ \A kwargs \in KwargInputs :
                    insert(mechanism, subset, kwargs) =>
                        /\ OthersUnchanged(subset)
                        /\ \A i \in 1..Len(sections) :
                              (i - 1) \in Range(subset.ixs) => mechanism \in sections'[i].mechs
              /\ uninsert(mechanism, subset) =>
                    /\ OthersUnchanged(subset)
                    /\ \A i \in 1..Len(sections) :
                          (i - 1) \in Range(subset.ixs) => mechanism \notin sections'[i].mechs
      ]_vars

\* insert on a Model of two Sections has put the mechanism in both
C23_WitnessBothSections ==
    /\ op = "insert"
    /\ Len(sections) = 2
    /\ \A i \in 1..2 : sections[i].mechs = {"hh"}

(***************************************************************************)
(* C24: the calls on a cleared Model                                       *)
(***************************************************************************)
\* The instrumentation methods: add_record, add_voltage_record and
\* add_current_record end in _add_record, inject_current_pulse and
\* add_synaptic_current in _add_stimulus
InstrumentationOps == {"_add_record", "_add_stimulus", "add_synaptic_input"}

\* The three registries and the Section array are empty
AllEmpty ==
    /\ records = EmptyMap
    /\ stimuli = EmptyMap
    /\ synapses = EmptyMap
    /\ sections = <<>>

\* C24: after clear, as long as the Model is not rebuilt, the three
\* registries and the Section array are empty, and every instrumentation call
\* with a non-empty `where` fails and adds no entry to a registry
C24_ClearedStaysEmpty ==
    [][status' = "cleared" =>
          /\ AllEmpty'
          /\ (status = "cleared" /\ op' \in InstrumentationOps /\ ncalls' # ncalls) =>
                /\ err' # "none"
                /\ UNCHANGED <<records, stimuli, synapses, sections>>
      ]_vars

\* An instrumentation call with node ids of the skeleton failed on a cleared
\* Model after an earlier call on the built Model had succeeded
C24_Witness ==
    /\ status = "cleared"
    /\ op \in InstrumentationOps
    /\ arg = "valid"
    /\ err = "IndexError"
    /\ ncalls = 2
    /\ AllEmpty

\* After the rebuild an instrumentation call succeeds again
C24_WitnessRebuilt ==
    /\ status = "built"
    /\ orig.clears > 0
    /\ op = "add_synaptic_input"
    /\ err = "none"
    /\ synapses # EmptyMap

====
